---- MODULE Spec2Model ----
(***************************************************************************)
(* The message-update streaming pipeline of src/lib/utils/messageUpdates.ts *)
(*                                                                         *)
(*   fetchMessageUpdates              cancellation wiring, mode toggle     *)
(*   endpointStreamToIterator         chunk decoder (reader loop, carry)   *)
(*   parseMessageUpdates              newline framing + JSON.parse         *)
(*   streamMessageUpdatesToFullWords  word coalescer                       *)
(*   smoothAsyncIterator              pacing scheduler (producer/consumer) *)
(*                                                                         *)
(* and the reasoning panel of                                              *)
(* src/lib/components/chat/OpenReasoningResults.svelte, which opens and    *)
(* closes with its loading prop.                                           *)
(*                                                                         *)
(* Text is a sequence of one-character strings.  An async generator is a   *)
(* program counter plus the list of values its current loop still has to   *)
(* yield; it advances only while its consumer has a next() outstanding.    *)
(***************************************************************************)
EXTENDS Integers, Sequences, FiniteSets, TLC

VARIABLES
    smooth,                  \* PUBLIC_SMOOTH_UPDATES === "true"
    response,                \* fetch: "pending" | "ok" | "notOk" | "noBody" | "aborted"
    lines,                   \* the lines the server sends (history, never changes)
    tail,                    \* unterminated text after the last newline (history)
    net,                     \* body text not yet handed out by reader.read()
    rstate,                  \* reader: "none" | "open" | "closed" | "errored"
    cancelCalls,             \* number of reader.cancel() invocations
    abortCalls,              \* number of abortController.abort() invocations
    extAborted,              \* the caller's abortSignal has fired
    aborted,                 \* abortController.signal.aborted
    listener,                \* the decoder's "abort" listener is registered
    dpc,                     \* decoder: "init" | "loop" | "reading" | "done" | "failed"
    prevChunk,               \* decoder carry
    dOut,                    \* decoder: messageUpdates of the chunk still to yield
    cpc,                     \* coalescer: "run" | "done" | "failed"
    bufferedStreamUpdates,   \* coalescer buffer
    cOut,                    \* coalescer: values computed and still to yield
    ppc,                     \* consumeIterator: "idle" | "run" | "done" | "failed"
    taken,                   \* records consumeIterator has received (history)
    charQueue,
    pendingNonStreamUpdates,
    iteratorDone,
    spc,                     \* scheduler main loop position
    currentSpeed,            \* scheduler: characters per second
    lastQueueLength,         \* scheduler: charQueue.length at the end of the last frame
    targetSpeed,             \* scheduler: targetSpeed of the last frame
    previousSpeed,           \* currentSpeed before the last frame (history)
    speedFrames,             \* frames of the speed controller specification (history)
    callerWaiting,           \* the caller has a next() outstanding
    out,                     \* records handed to the caller, in order
    outcome,                 \* the caller's sequence: "open" | "completed" | "failed";
                             \* "fetching" before fetchMessageUpdates has settled,
                             \* "threw" when it has rejected
    abortedAt,               \* Len(out) when the abortSignal fired, -1 before (history)
    abortedIn,               \* dpc when the abortSignal fired, "none" before (history)
    spanned,                 \* some chunk ended inside a line (history)
    decoded,                 \* records the decoder has yielded (history)
    loading,                 \* reasoning panel: the loading prop
    isOpen,                  \* reasoning panel: $state
    wasLoading,              \* reasoning panel: $state
    initialized,             \* reasoning panel: $state
    clicks,                  \* clicks on the panel's header (history)
    loadingChanges           \* changes of the loading prop (history)

netVars   == <<lines, tail, net, rstate>>
abortVars == <<cancelCalls, abortCalls, extAborted, aborted, listener, abortedAt, abortedIn>>
decVars   == <<dpc, prevChunk, dOut, spanned, decoded>>
coVars    == <<cpc, bufferedStreamUpdates, cOut>>
schedVars == <<ppc, taken, charQueue, pendingNonStreamUpdates, iteratorDone, spc>>
speedVars == <<currentSpeed, lastQueueLength, targetSpeed, previousSpeed, speedFrames>>
callVars  == <<callerWaiting, out, outcome>>
panelVars == <<loading, isOpen, wasLoading, initialized, clicks, loadingChanges>>
vars == <<smooth, response, netVars, abortVars, decVars, coVars, schedVars, speedVars, callVars,
          panelVars>>

(***************************************************************************)
(* Bounds of the model.                                                    *)
(***************************************************************************)
MaxRecs  == 3     \* records per stream in the pipeline specification
MaxLines == 3     \* lines per stream in the decoder specification
MaxBurst == 2     \* largest charsToProcess a frame is given
MaxFragments == 7 \* records per stream in the coalescer specification
MaxFrames == 3    \* frames in the speed controller specification
MaxClicks == 5    \* clicks on the reasoning panel's header
MaxLoadingChanges == 5 \* changes of the reasoning panel's loading prop

(***************************************************************************)
(* Text and records.                                                       *)
(***************************************************************************)
NL == "\n"
BS == "\\"

Stream(token)  == [type |-> "stream", token |-> token]
NonStream(id)  == [type |-> "tool", uuid |-> id]
IsStream(u)    == u.type = "stream"

Uuids     == {"1", "2"}
WordChars == {"a", "b"}            \* members of [a-zA-Z0-9...'`]
PlainChars == WordChars \cup {" "} \* token characters JSON leaves unescaped

Last(s) == s[Len(s)]

RECURSIVE Concat(_)
Concat(ss) == IF ss = <<>> THEN <<>> ELSE Head(ss) \o Concat(Tail(ss))

RECURSIVE SeqsUpTo(_, _)
SeqsUpTo(S, n) ==
    IF n = 0 THEN {<<>>}
    ELSE LET shorter == SeqsUpTo(S, n - 1)
         IN  shorter \cup {Append(s, x) : s \in {t \in shorter : Len(t) = n - 1}, x \in S}

IsPrefix(s, t) == Len(s) <= Len(t) /\ SubSeq(t, 1, Len(s)) = s

(***************************************************************************)
(* The wire format: one JSON object per line.  A line is "{" tag body "}"; *)
(* tag S carries a token whose newline is escaped as backslash-n, tag T a  *)
(* tool update identified by one character.                                *)
(***************************************************************************)
RECURSIVE Escape(_)
Escape(token) ==
    IF token = <<>> THEN <<>>
    ELSE (IF Head(token) = NL THEN <<BS, "n">> ELSE <<Head(token)>>) \o Escape(Tail(token))

Encode(u) ==
    IF IsStream(u) THEN <<"{", "S">> \o Escape(u.token) \o <<"}">>
    ELSE <<"{", "T", u.uuid, "}">>

RECURSIVE JoinLines(_)
JoinLines(ls) == IF ls = <<>> THEN <<>> ELSE Head(ls) \o <<NL>> \o JoinLines(Tail(ls))

RECURSIVE ValidBody(_)
ValidBody(b) ==
    IF b = <<>> THEN TRUE
    ELSE IF Head(b) = BS THEN Len(b) >= 2 /\ b[2] = "n" /\ ValidBody(SubSeq(b, 3, Len(b)))
    ELSE Head(b) \in PlainChars /\ ValidBody(Tail(b))

RECURSIVE Unescape(_)
Unescape(b) ==
    IF b = <<>> THEN <<>>
    ELSE IF Head(b) = BS THEN <<NL>> \o Unescape(SubSeq(b, 3, Len(b)))
    ELSE <<Head(b)>> \o Unescape(Tail(b))

\* JSON.parse(input) does not throw SyntaxError
IsJSON(input) ==
    /\ Len(input) >= 3
    /\ input[1] = "{"
    /\ Last(input) = "}"
    /\ LET body == SubSeq(input, 3, Len(input) - 1)
       IN  \/ input[2] = "S" /\ ValidBody(body)
           \/ input[2] = "T" /\ Len(body) = 1 /\ body[1] \in Uuids

JSONParse(input) ==
    LET body == SubSeq(input, 3, Len(input) - 1)
    IN  IF input[2] = "S" THEN Stream(Unescape(body)) ELSE NonStream(body[1])

\* value.split("\n")
RECURSIVE Split(_)
Split(value) ==
    IF \A i \in 1..Len(value) : value[i] # NL THEN <<value>>
    ELSE LET i == CHOOSE i \in 1..Len(value) :
                      value[i] = NL /\ \A j \in 1..(i - 1) : value[j] # NL
         IN  <<SubSeq(value, 1, i - 1)>> \o Split(SubSeq(value, i + 1, Len(value)))

(***************************************************************************)
(* parseMessageUpdates: parse the segments in order; the first SyntaxError *)
(* ends the loop and returns what was parsed, with the LAST segment as the *)
(* remaining text.                                                         *)
(***************************************************************************)
RECURSIVE ParseLoop(_, _, _)
ParseLoop(inputs, i, messageUpdates) ==
    IF i > Len(inputs)
    THEN [messageUpdates |-> messageUpdates, remainingText |-> <<>>]
    ELSE IF IsJSON(inputs[i])
    THEN ParseLoop(inputs, i + 1, Append(messageUpdates, JSONParse(inputs[i])))
    ELSE [messageUpdates |-> messageUpdates, remainingText |-> Last(inputs)]

parseMessageUpdates(value) == ParseLoop(Split(value), 1, <<>>)

(***************************************************************************)
(* What the stream holds: the records of its well-formed lines.            *)
(***************************************************************************)
RECURSIVE ValidRecords(_)
ValidRecords(ls) ==
    IF ls = <<>> THEN <<>>
    ELSE (IF IsJSON(Head(ls)) THEN <<JSONParse(Head(ls))>> ELSE <<>>) \o ValidRecords(Tail(ls))

AllValid(ls) == \A i \in 1..Len(ls) : IsJSON(ls[i])

RECURSIVE TextOf(_)
TextOf(us) ==
    IF us = <<>> THEN <<>>
    ELSE (IF IsStream(Head(us)) THEN Head(us).token ELSE <<>>) \o TextOf(Tail(us))

RECURSIVE NonStreamsOf(_)
NonStreamsOf(us) ==
    IF us = <<>> THEN <<>>
    ELSE (IF IsStream(Head(us)) THEN <<>> ELSE <<Head(us)>>) \o NonStreamsOf(Tail(us))

(***************************************************************************)
(* streamMessageUpdatesToFullWords: the work done for one record received  *)
(* from the decoder.  The result is the list of values yielded while the   *)
(* record is processed and the buffer left afterwards.                     *)
(***************************************************************************)
CombineCap == 5

EndsAlphanumeric(token)   == token # <<>> /\ Last(token) \in WordChars
BeginsAlphanumeric(token) == token # <<>> /\ Head(token) \in WordChars

JoinTokens(us) == Concat([k \in 1..Len(us) |-> us[k].token])

\* the loop without its combinedTooMany test
RECURSIVE WordLoopNoCap(_, _, _, _)
WordLoopNoCap(buffered, i, lastIndexEmitted, yielded) ==
    IF i >= Len(buffered)
    THEN [yielded |-> yielded,
          buffered |-> SubSeq(buffered, lastIndexEmitted + 1, Len(buffered))]
    ELSE IF EndsAlphanumeric(buffered[i].token) /\ BeginsAlphanumeric(buffered[i + 1].token)
    THEN WordLoopNoCap(buffered, i + 1, lastIndexEmitted, yielded)
    ELSE WordLoopNoCap(buffered, i + 1, i,
             Append(yielded, Stream(JoinTokens(SubSeq(buffered, lastIndexEmitted + 1, i)))))

\* the for loop over the buffer; i and lastIndexEmitted are the code's
\* 0-based indices, buffered[i] of the code is buffered[i + 1] here
RECURSIVE WordLoop(_, _, _, _)
WordLoop(buffered, i, lastIndexEmitted, yielded) ==
    IF i >= Len(buffered)
    THEN [yielded |-> yielded,
          buffered |-> SubSeq(buffered, lastIndexEmitted + 1, Len(buffered))]
    ELSE LET prevEndsAlphanumeric   == EndsAlphanumeric(buffered[i].token)
             currBeginsAlphanumeric == BeginsAlphanumeric(buffered[i + 1].token)
             shouldCombine   == prevEndsAlphanumeric /\ currBeginsAlphanumeric
             combinedTooMany == i - lastIndexEmitted >= CombineCap
         IN  IF shouldCombine /\ ~combinedTooMany
             THEN WordLoop(buffered, i + 1, lastIndexEmitted, yielded)
             ELSE WordLoop(buffered, i + 1, i,
                      Append(yielded,
                             Stream(JoinTokens(SubSeq(buffered, lastIndexEmitted + 1, i)))))

FullWordsStepDropsTool(buffered, messageUpdate) ==
    IF ~IsStream(messageUpdate)
    THEN [yielded  |-> IF Len(buffered) > 0 THEN <<Stream(JoinTokens(buffered))>>
                       ELSE <<messageUpdate>>,
          buffered |-> <<>>]
    ELSE WordLoop(Append(buffered, messageUpdate), 1, 0, <<>>)

\* a coalescer that lets the non-stream update pass ahead of the buffered tokens
FullWordsStepToolFirst(buffered, messageUpdate) ==
    IF ~IsStream(messageUpdate)
    THEN [yielded  |-> <<messageUpdate>> \o
                       (IF Len(buffered) > 0 THEN <<Stream(JoinTokens(buffered))>> ELSE <<>>),
          buffered |-> <<>>]
    ELSE WordLoop(Append(buffered, messageUpdate), 1, 0, <<>>)

\* a coalescer that withholds nothing: what the loop leaves is emitted at once
FullWordsStepWithholdsNothing(buffered, messageUpdate) ==
    IF ~IsStream(messageUpdate)
    THEN [yielded  |-> (IF Len(buffered) > 0 THEN <<Stream(JoinTokens(buffered))>> ELSE <<>>)
                        \o <<messageUpdate>>,
          buffered |-> <<>>]
    ELSE LET r == WordLoop(Append(buffered, messageUpdate), 1, 0, <<>>)
         IN  [yielded  |-> Append(r.yielded, Stream(JoinTokens(r.buffered))),
              buffered |-> <<>>]

FullWordsStep(buffered, messageUpdate) ==
    IF ~IsStream(messageUpdate)
    THEN [yielded  |-> (IF Len(buffered) > 0 THEN <<Stream(JoinTokens(buffered))>> ELSE <<>>)
                        \o <<messageUpdate>>,
          buffered |-> <<>>]
    ELSE WordLoop(Append(buffered, messageUpdate), 1, 0, <<>>)

(***************************************************************************)
(* AbortController.abort(): only the first call aborts the signal and runs *)
(* its listeners; the decoder's listener, once registered, calls           *)
(* reader.cancel(), which closes an open reader.                           *)
(***************************************************************************)
AbortAlways == TRUE

\* an abort() that is counted but leaves the signal as it was
CallAbortCountsOnly(n) ==
    /\ abortCalls' = abortCalls + n
    /\ UNCHANGED <<aborted, cancelCalls>>

AbortFires == ~aborted

CancelOnAbort == AbortFires /\ listener

CallAbort(n) ==
    /\ abortCalls' = abortCalls + n
    /\ aborted' = TRUE
    /\ cancelCalls' = IF CancelOnAbort THEN cancelCalls + 1 ELSE cancelCalls

(***************************************************************************)
(* fetchMessageUpdates: the fetch settles, response.ok and response.body   *)
(* are checked, and the generator of the selected mode is returned.        *)
(***************************************************************************)
\* a fetchMessageUpdates that returns the generator whatever the response is
FetchRespondsUnchecked(r) ==
    /\ outcome = "fetching"
    /\ response' = r
    /\ outcome' = "open"
    /\ UNCHANGED <<panelVars, smooth, speedVars, netVars, abortVars, decVars, coVars, schedVars, callerWaiting, out>>

FetchResponds(r) ==
    /\ outcome = "fetching"
    /\ response' = r
    /\ outcome' = IF r = "ok" THEN "open" ELSE "threw"
    /\ UNCHANGED <<panelVars, smooth, speedVars, netVars, abortVars, decVars, coVars, schedVars, callerWaiting, out>>

\* abortSignal fires while the fetch is pending: the controller is aborted and
\* the fetch, which was given its signal, rejects
FetchAborted ==
    /\ outcome = "fetching"
    /\ response' = "aborted"
    /\ outcome' = "threw"
    /\ extAborted' = TRUE
    /\ abortedAt' = Len(out)
    /\ abortedIn' = dpc
    /\ CallAbort(1)
    /\ UNCHANGED <<panelVars, smooth, speedVars, netVars, listener, decVars, coVars, schedVars, callerWaiting, out>>

(***************************************************************************)
(* The caller.                                                             *)
(***************************************************************************)
Pull ==
    /\ outcome = "open"
    /\ ~callerWaiting
    /\ callerWaiting' = TRUE
    /\ UNCHANGED <<panelVars, smooth, response, speedVars, netVars, abortVars, decVars, coVars, schedVars, out, outcome>>

\* abortSignal fires: the listener of fetchMessageUpdates aborts the controller
ExternalAbort ==
    /\ outcome = "open"
    /\ ~extAborted
    /\ extAborted' = TRUE
    /\ abortedAt' = Len(out)
    /\ abortedIn' = dpc
    /\ CallAbort(1)
    /\ rstate' = IF CancelOnAbort /\ rstate = "open" THEN "closed" ELSE rstate
    /\ UNCHANGED <<panelVars, smooth, response, speedVars, lines, tail, net, listener, decVars, coVars, schedVars, callVars>>

(***************************************************************************)
(* endpointStreamToIterator.                                               *)
(***************************************************************************)
\* a next() of the decoder is outstanding
DecPulled ==
    IF smooth THEN ppc = "run" /\ cpc = "run" /\ cOut = <<>> ELSE callerWaiting

\* the generator ends: in pass-through mode that ends the caller's sequence
DecEnds(how) ==
    IF smooth THEN UNCHANGED callVars
    ELSE /\ outcome' = how
         /\ callerWaiting' = FALSE
         /\ out' = out

\* first next(): acquire the reader, register the two handlers, and enter the
\* loop: while (!abortController.signal.aborted) { ... await reader.read()
DecStart ==
    /\ dpc = "init"
    /\ DecPulled
    /\ rstate' = "open"
    /\ listener' = TRUE
    /\ IF aborted
       THEN dpc' = "done" /\ DecEnds("completed")
       ELSE dpc' = "reading" /\ UNCHANGED callVars
    /\ UNCHANGED <<panelVars, smooth, response, speedVars, lines, tail, net, cancelCalls, abortCalls, extAborted, aborted,
                   abortedAt, abortedIn, prevChunk, dOut, spanned, decoded, coVars, schedVars>>

\* resumed after the last yield of a chunk: the loop condition, then the next read
DecLoop ==
    /\ dpc = "loop"
    /\ dOut = <<>>
    /\ DecPulled
    /\ IF aborted
       THEN dpc' = "done" /\ DecEnds("completed")
       ELSE dpc' = "reading" /\ UNCHANGED callVars
    /\ UNCHANGED <<panelVars, smooth, response, speedVars, netVars, abortVars, prevChunk, dOut, spanned, decoded, coVars, schedVars>>

\* the read continuation: parse prevChunk + value, keep the remaining text, start
\* yielding; in pass-through mode the first yield answers the caller's next()
Decode(value) ==
    LET parsed == parseMessageUpdates(prevChunk \o value)
        messageUpdates == parsed.messageUpdates
    IN  /\ prevChunk' = parsed.remainingText
        /\ spanned' = (spanned \/ parsed.remainingText # <<>>)
        /\ dpc' = "loop"
        /\ IF ~smooth /\ messageUpdates # <<>>
           THEN /\ out' = Append(out, Head(messageUpdates))
                /\ decoded' = Append(decoded, Head(messageUpdates))
                /\ dOut' = Tail(messageUpdates)
                /\ callerWaiting' = FALSE
                /\ UNCHANGED outcome
           ELSE /\ dOut' = messageUpdates
                /\ UNCHANGED <<decoded, callVars>>

\* read() gives a chunk of k characters
ReadChunk(k) ==
    /\ dpc = "reading"
    /\ rstate = "open"
    /\ k \in 1..Len(net)
    /\ Decode(SubSeq(net, 1, k))
    /\ net' = SubSeq(net, k + 1, Len(net))
    /\ UNCHANGED <<panelVars, smooth, response, speedVars, lines, tail, rstate, abortVars, coVars, schedVars>>

\* read() gives the last chunk while the source has already ended: the stream
\* closes as the chunk is taken, and the reader.closed handler calls abort()
ReadLastChunk ==
    /\ dpc = "reading"
    /\ rstate = "open"
    /\ net # <<>>
    /\ Decode(net)
    /\ net' = <<>>
    /\ rstate' = "closed"
    /\ CallAbort(1)
    /\ UNCHANGED <<panelVars, smooth, response, speedVars, lines, tail, extAborted, listener, abortedAt, abortedIn,
                   coVars, schedVars>>

\* read() gives an empty chunk: if (!value) continue
ReadEmpty ==
    /\ dpc = "reading"
    /\ rstate = "open"
    /\ net # <<>>
    /\ dpc' = "loop"
    /\ UNCHANGED <<panelVars, smooth, response, speedVars, netVars, abortVars, prevChunk, dOut, spanned, decoded, coVars, schedVars, callVars>>

\* read() gives done: the source has ended, or the reader was cancelled.
\* reader.closed resolves too and its handler calls abort() as well.
ReadDone ==
    /\ dpc = "reading"
    /\ rstate = "closed" \/ (rstate = "open" /\ net = <<>>)
    /\ rstate' = "closed"
    /\ CallAbort(2)
    /\ dpc' = "done"
    /\ DecEnds("completed")
    /\ UNCHANGED <<panelVars, smooth, response, speedVars, lines, tail, net, extAborted, listener, abortedAt, abortedIn,
                   prevChunk, dOut, spanned, decoded, coVars, schedVars>>

\* read() rejects: the source failed
ReadError ==
    /\ dpc = "reading"
    /\ rstate = "open"
    /\ rstate' = "errored"
    /\ dpc' = "failed"
    /\ DecEnds("failed")
    /\ UNCHANGED <<panelVars, smooth, response, speedVars, lines, tail, net, abortVars, prevChunk, dOut, spanned, decoded, coVars, schedVars>>

\* a pass-through that takes the next record from the decoder and loses it
DecYieldDropsRecord ==
    /\ ~smooth
    /\ callerWaiting
    /\ dpc = "loop"
    /\ dOut # <<>>
    /\ decoded' = Append(decoded, Head(dOut))
    /\ dOut' = Tail(dOut)
    /\ UNCHANGED <<panelVars, smooth, response, speedVars, netVars, abortVars, dpc, prevChunk, spanned, coVars,
                   schedVars, callVars>>

\* for (const messageUpdate of messageUpdates) yield messageUpdate: the caller's
\* next() resumes the loop at its next element
DecYield ==
    /\ ~smooth
    /\ callerWaiting
    /\ dpc = "loop"
    /\ dOut # <<>>
    /\ out' = Append(out, Head(dOut))
    /\ decoded' = Append(decoded, Head(dOut))
    /\ dOut' = Tail(dOut)
    /\ callerWaiting' = FALSE
    /\ UNCHANGED <<panelVars, smooth, response, speedVars, netVars, abortVars, dpc, prevChunk, spanned, coVars, schedVars, outcome>>

(***************************************************************************)
(* streamMessageUpdatesToFullWords as a generator between the decoder and  *)
(* consumeIterator.                                                        *)
(***************************************************************************)
\* for await (const messageUpdate of iterator) { ... }
CoStep ==
    /\ smooth /\ ppc = "run" /\ cpc = "run"
    /\ cOut = <<>>
    /\ dpc = "loop" /\ dOut # <<>>
    /\ LET r == FullWordsStep(bufferedStreamUpdates, Head(dOut))
       IN  /\ cOut' = r.yielded
           /\ bufferedStreamUpdates' = r.buffered
    /\ decoded' = Append(decoded, Head(dOut))
    /\ dOut' = Tail(dOut)
    /\ UNCHANGED <<panelVars, smooth, response, speedVars, netVars, abortVars, dpc, prevChunk, spanned, cpc, schedVars, callVars>>

\* a coalescer that returns at the end of its input without flushing its buffer
CoEndDropsBuffer ==
    /\ smooth /\ ppc = "run" /\ cpc = "run"
    /\ cOut = <<>>
    /\ dpc = "done" /\ dOut = <<>>
    /\ cpc' = "done"
    /\ UNCHANGED <<panelVars, smooth, response, speedVars, netVars, abortVars, decVars, bufferedStreamUpdates, cOut,
                   schedVars, callVars>>

\* the decoder has returned: for (const messageUpdate of bufferedStreamUpdates) yield
CoEnd ==
    /\ smooth /\ ppc = "run" /\ cpc = "run"
    /\ cOut = <<>>
    /\ dpc = "done" /\ dOut = <<>>
    /\ cOut' = bufferedStreamUpdates
    /\ cpc' = "done"
    /\ UNCHANGED <<panelVars, smooth, response, speedVars, netVars, abortVars, decVars, bufferedStreamUpdates,
                   schedVars, callVars>>

\* the decoder has thrown: the for await rethrows
CoFail ==
    /\ smooth /\ ppc = "run" /\ cpc = "run"
    /\ cOut = <<>>
    /\ dpc = "failed"
    /\ cpc' = "failed"
    /\ UNCHANGED <<panelVars, smooth, response, speedVars, netVars, abortVars, decVars, bufferedStreamUpdates, cOut,
                   schedVars, callVars>>

(***************************************************************************)
(* smoothAsyncIterator: the background task consumeIterator.               *)
(***************************************************************************)
\* an event dispatched while nobody listens, or whose listener does nothing
DispatchedUnheard(pc) == pc

\* dispatchEvent: a main loop waiting in waitForDataOrTimeout resumes
Dispatched(pc) == IF pc = "idle" THEN "woken" ELSE pc

Chars(update) == update.token          \* update.token.split("")

ConsumeUpdate ==
    /\ ppc = "run"
    /\ cOut # <<>>
    /\ LET update == Head(cOut)
       IN  /\ taken' = Append(taken, update)
           /\ IF IsStream(update)
              THEN /\ charQueue' = charQueue \o Chars(update)
                   /\ UNCHANGED pendingNonStreamUpdates
              ELSE /\ pendingNonStreamUpdates' = Append(pendingNonStreamUpdates, update)
                   /\ UNCHANGED charQueue
    /\ cOut' = Tail(cOut)
    /\ spc' = Dispatched(spc)
    /\ UNCHANGED <<panelVars, smooth, response, speedVars, netVars, abortVars, decVars, cpc, bufferedStreamUpdates,
                   ppc, iteratorDone, callVars>>

ConsumeDone ==
    /\ ppc = "run"
    /\ cOut = <<>>
    /\ cpc = "done"
    /\ iteratorDone' = TRUE
    /\ ppc' = "done"
    /\ spc' = Dispatched(spc)
    /\ UNCHANGED <<panelVars, smooth, response, speedVars, netVars, abortVars, decVars, coVars, taken, charQueue,
                   pendingNonStreamUpdates, callVars>>

\* the for await throws: the task's promise rejects, iteratorDone stays false
ConsumeFail ==
    /\ ppc = "run"
    /\ cOut = <<>>
    /\ cpc = "failed"
    /\ ppc' = "failed"
    /\ UNCHANGED <<panelVars, smooth, response, speedVars, netVars, abortVars, decVars, coVars, taken, charQueue,
                   pendingNonStreamUpdates, iteratorDone, spc, callVars>>

(***************************************************************************)
(* smoothAsyncIterator: the main animation loop.  It runs only while the   *)
(* caller has a next() outstanding.  spc:                                  *)
(*   "init"  not started          "loop"  at the outer while condition     *)
(*   "ns"    suspended at the yield of a non-stream update                 *)
(*   "post"  suspended at the yield of a stream token                      *)
(*   "sleep" awaiting sleep(FRAME_INTERVAL_MS)                             *)
(*   "idle"  awaiting waitForDataOrTimeout(100)                            *)
(*   "woken" that wait was resolved by a "data" or "done" event; the loop  *)
(*           continues at the outer while condition                        *)
(*   "join"  awaiting consumeIterator      "done"  returned or thrown      *)
(***************************************************************************)
LoopConditionQueuesOnly ==
    Len(charQueue) > 0 \/ Len(pendingNonStreamUpdates) > 0

LoopCondition ==
    ~iteratorDone \/ Len(charQueue) > 0 \/ Len(pendingNonStreamUpdates) > 0

\* the inner while has emptied pendingNonStreamUpdates before anything else is done
PendingAnyOrder == TRUE

PendingFirst == Len(pendingNonStreamUpdates) = 0

\* at the head of the frame: past the outer condition, or resumed in the inner while
\* at the outer while condition
AtLoopHead == spc \in {"loop", "woken"}

InFrame == (AtLoopHead /\ LoopCondition) \/ spc = "ns"

SmoothStart ==
    /\ smooth /\ callerWaiting
    /\ spc = "init"
    /\ ppc' = "run"
    /\ spc' = "loop"
    /\ UNCHANGED <<panelVars, smooth, response, speedVars, netVars, abortVars, decVars, coVars, taken, charQueue,
                   pendingNonStreamUpdates, iteratorDone, callVars>>

\* while (pendingNonStreamUpdates.length > 0) yield pendingNonStreamUpdates.shift()
EmitNonStream ==
    /\ smooth /\ callerWaiting
    /\ InFrame
    /\ Len(pendingNonStreamUpdates) > 0
    /\ out' = Append(out, Head(pendingNonStreamUpdates))
    /\ pendingNonStreamUpdates' = Tail(pendingNonStreamUpdates)
    /\ callerWaiting' = FALSE
    /\ spc' = "ns"
    /\ UNCHANGED <<panelVars, smooth, response, speedVars, netVars, abortVars, decVars, coVars, ppc, taken, charQueue,
                   iteratorDone, outcome>>

(***************************************************************************)
(* The dynamic speed adjustment of a frame.  Speeds are whole characters   *)
(* per second; the change rate is kept in ten-thousandths and the          *)
(* increment (targetSpeed - currentSpeed) * speedChangeRate is rounded     *)
(* down.                                                                   *)
(***************************************************************************)
START_ANIMATION_SPEED == 30
RatePerChar == 8          \* 0.0008 per character of queue length change
RateBase    == 50         \* 0.005
RateScale   == 10000

\* Math.max / Math.abs
Max(a, b) == IF a >= b THEN a ELSE b
Abs(a)    == IF a >= 0 THEN a ELSE 0 - a

\* floor(d * rate / RateScale), computed without leaving 32 bits
Scaled(d, rate) ==
    (d \div RateScale) * rate + ((d % RateScale) * rate) \div RateScale

\* currentSpeed += (targetSpeed - currentSpeed) * speedChangeRate
SpeedStep(speed, queueLength, lastLength) ==
    LET target          == Max(START_ANIMATION_SPEED, queueLength)
        speedChangeRate == Abs(queueLength - lastLength) * RatePerChar + RateBase
    IN  speed + Scaled(target - speed, speedChangeRate)

\* the speed adjustment of a frame that finds queueLength characters queued
AdjustSpeed(queueLength) ==
    /\ targetSpeed' = Max(START_ANIMATION_SPEED, queueLength)
    /\ currentSpeed' = SpeedStep(currentSpeed, queueLength, lastQueueLength)
    /\ previousSpeed' = currentSpeed

\* The frame as the speed controller sees it: queueLength characters are
\* queued, the speed is adjusted, and when the frame (with what arrives while
\* its token is being taken) is over, left characters are queued.  A frame
\* whose speed is not positive emits nothing.
SpeedFrame(queueLength, left) ==
    /\ speedFrames < MaxFrames
    /\ speedFrames' = speedFrames + 1
    /\ queueLength >= lastQueueLength
    /\ AdjustSpeed(queueLength)
    /\ currentSpeed' <= 0 => left = queueLength
    /\ lastQueueLength' = left
    /\ UNCHANGED <<panelVars, smooth, response, netVars, abortVars, decVars, coVars, schedVars, callVars>>

SpliceTakenOneLess(actualChars) == SubSeq(charQueue, 1, actualChars - 1)

\* the characters charQueue.splice(0, actualChars) removes and returns
SpliceTaken(actualChars) == SubSeq(charQueue, 1, actualChars)

SpliceLeft(actualChars) == SubSeq(charQueue, actualChars + 1, Len(charQueue))

\* a frame whose accumulated time is worth charsToProcess > 0 characters
FrameEmit(charsToProcess) ==
    /\ smooth /\ callerWaiting
    /\ InFrame
    /\ PendingFirst
    /\ Len(charQueue) > 0
    /\ charsToProcess > 0
    /\ LET actualChars == IF charsToProcess < Len(charQueue)
                          THEN charsToProcess ELSE Len(charQueue)
       IN  /\ out' = Append(out, Stream(SpliceTaken(actualChars)))
           /\ charQueue' = SpliceLeft(actualChars)
    /\ AdjustSpeed(Len(charQueue))
    /\ currentSpeed' > 0          \* Math.floor(accumulatedTime * currentSpeed / 1000) > 0
    /\ callerWaiting' = FALSE
    /\ spc' = "post"
    /\ UNCHANGED <<panelVars, smooth, response, lastQueueLength, speedFrames, netVars, abortVars, decVars,
                   coVars, ppc, taken, pendingNonStreamUpdates, iteratorDone, outcome>>

\* a frame whose accumulated time is worth no character yet
FrameSkip ==
    /\ smooth /\ callerWaiting
    /\ InFrame
    /\ PendingFirst
    /\ Len(charQueue) > 0
    /\ AdjustSpeed(Len(charQueue))
    /\ lastQueueLength' = Len(charQueue)
    /\ spc' = "sleep"
    /\ UNCHANGED <<panelVars, smooth, response, speedFrames, netVars, abortVars, decVars, coVars, ppc, taken, charQueue,
                   pendingNonStreamUpdates, iteratorDone, callVars>>

\* resumed after the token was yielded: lastQueueLength = ...; await sleep(16)
FramePost ==
    /\ smooth /\ callerWaiting
    /\ spc = "post"
    /\ lastQueueLength' = Len(charQueue)
    /\ spc' = "sleep"
    /\ UNCHANGED <<panelVars, smooth, response, currentSpeed, targetSpeed, previousSpeed, speedFrames, netVars,
                   abortVars, decVars, coVars, ppc, taken, charQueue,
                   pendingNonStreamUpdates, iteratorDone, callVars>>

SleepDone ==
    /\ smooth /\ callerWaiting
    /\ spc = "sleep"
    /\ spc' = "loop"
    /\ UNCHANGED <<panelVars, smooth, response, speedVars, netVars, abortVars, decVars, coVars, ppc, taken, charQueue,
                   pendingNonStreamUpdates, iteratorDone, callVars>>

\* else if (!iteratorDone) await waitForDataOrTimeout(100)
IdleEnter ==
    /\ smooth /\ callerWaiting
    /\ InFrame
    /\ PendingFirst
    /\ Len(charQueue) = 0
    /\ ~iteratorDone
    /\ spc' = "idle"
    /\ UNCHANGED <<panelVars, smooth, response, speedVars, netVars, abortVars, decVars, coVars, ppc, taken, charQueue,
                   pendingNonStreamUpdates, iteratorDone, callVars>>

\* sleep(100) wins the race
IdleTimeout ==
    /\ smooth /\ callerWaiting
    /\ spc = "idle"
    /\ spc' = "loop"
    /\ UNCHANGED <<panelVars, smooth, response, speedVars, netVars, abortVars, decVars, coVars, ppc, taken, charQueue,
                   pendingNonStreamUpdates, iteratorDone, callVars>>

\* the inner while found nothing more and neither branch applies: next iteration
FrameNothing ==
    /\ smooth /\ callerWaiting
    /\ spc = "ns"
    /\ PendingFirst
    /\ Len(charQueue) = 0
    /\ iteratorDone
    /\ spc' = "loop"
    /\ UNCHANGED <<panelVars, smooth, response, speedVars, netVars, abortVars, decVars, coVars, ppc, taken, charQueue,
                   pendingNonStreamUpdates, iteratorDone, callVars>>

\* the outer condition is false: leave the loop
LoopExit ==
    /\ smooth /\ callerWaiting
    /\ AtLoopHead
    /\ ~LoopCondition
    /\ spc' = "join"
    /\ UNCHANGED <<panelVars, smooth, response, speedVars, netVars, abortVars, decVars, coVars, ppc, taken, charQueue,
                   pendingNonStreamUpdates, iteratorDone, callVars>>

\* await consumeIterator
Join ==
    /\ smooth /\ callerWaiting
    /\ spc = "join"
    /\ ppc \in {"done", "failed"}
    /\ outcome' = IF ppc = "done" THEN "completed" ELSE "failed"
    /\ callerWaiting' = FALSE
    /\ spc' = "done"
    /\ UNCHANGED <<panelVars, smooth, response, speedVars, netVars, abortVars, decVars, coVars, ppc, taken, charQueue,
                   pendingNonStreamUpdates, iteratorDone, out>>

(***************************************************************************)
(* OpenReasoningResults.svelte.  The $effect runs once when the component  *)
(* is mounted and again after every change of the loading prop, before the *)
(* next event is handled; it does not read isOpen, so a click does not run *)
(* it.  An effect that wrote state it had read is run again.               *)
(***************************************************************************)
\* let isOpen = $state(false); let wasLoading = $state(false); let initialized = $state(false)
PanelUnmounted ==
    /\ isOpen = FALSE /\ wasLoading = FALSE /\ initialized = FALSE
    /\ clicks = 0 /\ loadingChanges = 0

\* an effect that expands when loading starts and never collapses
EffectExpandsOnly(p, isLoading) ==
    IF ~p.initialized /\ isLoading
    THEN [isOpen |-> TRUE, wasLoading |-> TRUE, initialized |-> TRUE]
    ELSE [isOpen      |-> IF isLoading /\ ~p.wasLoading THEN TRUE ELSE p.isOpen,
          wasLoading  |-> isLoading,
          initialized |-> TRUE]

\* one run of the $effect on the panel state p
Effect(p, isLoading) ==
    IF ~p.initialized /\ isLoading
    THEN [isOpen |-> TRUE, wasLoading |-> TRUE, initialized |-> TRUE]
    ELSE [isOpen      |-> IF isLoading /\ ~p.wasLoading THEN TRUE
                          ELSE IF ~isLoading /\ p.wasLoading THEN FALSE
                          ELSE p.isOpen,
          wasLoading  |-> isLoading,
          initialized |-> TRUE]

PanelState == [isOpen |-> isOpen, wasLoading |-> wasLoading, initialized |-> initialized]

\* the effect is run, and run again when it wrote initialized or wasLoading
RunEffect(isLoading) ==
    LET first == Effect(PanelState, isLoading)
        again == IF first.initialized # initialized \/ first.wasLoading # wasLoading
                 THEN Effect(first, isLoading) ELSE first
    IN  /\ isOpen' = again.isOpen
        /\ wasLoading' = again.wasLoading
        /\ initialized' = again.initialized

PipelineUnchanged ==
    UNCHANGED <<smooth, response, netVars, abortVars, decVars, coVars, schedVars, speedVars,
                callVars>>

\* first render
Mount ==
    /\ ~initialized
    /\ RunEffect(loading)
    /\ UNCHANGED <<loading, clicks, loadingChanges>>
    /\ PipelineUnchanged

\* the parent changes the loading prop
SetLoading(isLoading) ==
    /\ initialized
    /\ isLoading # loading
    /\ loadingChanges < MaxLoadingChanges
    /\ loading' = isLoading
    /\ loadingChanges' = loadingChanges + 1
    /\ RunEffect(isLoading)
    /\ UNCHANGED clicks
    /\ PipelineUnchanged

\* onclick={() => (isOpen = !isOpen)}
Toggle ==
    /\ initialized
    /\ clicks < MaxClicks
    /\ isOpen' = ~isOpen
    /\ clicks' = clicks + 1
    /\ UNCHANGED <<loading, wasLoading, initialized, loadingChanges>>
    /\ PipelineUnchanged


(***************************************************************************)
(* Specification of the whole pipeline, as fetchMessageUpdates returns it  *)
(* for a successful response: every stream of at most MaxRecs records over *)
(* RecSet, both modes, every chunking, an abort or a read failure at any   *)
(* moment.                                                                 *)
(***************************************************************************)
RecSet == {Stream(<<"a">>), Stream(<<" ", "b">>), NonStream("1"), NonStream("2")}

\* no stage of the pipeline has started
PipelineUnstarted ==
    /\ rstate = "none"
    /\ cancelCalls = 0 /\ abortCalls = 0
    /\ extAborted = FALSE /\ aborted = FALSE /\ listener = FALSE
    /\ abortedAt = -1 /\ abortedIn = "none"
    /\ dpc = "init" /\ prevChunk = <<>> /\ dOut = <<>> /\ spanned = FALSE
    /\ decoded = <<>>
    /\ cpc = "run" /\ bufferedStreamUpdates = <<>> /\ cOut = <<>>
    /\ ppc = "idle" /\ taken = <<>>
    /\ charQueue = <<>> /\ pendingNonStreamUpdates = <<>>
    /\ iteratorDone = FALSE
    /\ spc = "init"
    /\ currentSpeed = START_ANIMATION_SPEED /\ lastQueueLength = 0
    /\ targetSpeed = START_ANIMATION_SPEED /\ previousSpeed = START_ANIMATION_SPEED
    /\ speedFrames = 0
    /\ callerWaiting = FALSE /\ out = <<>>

\* nothing has started, no reasoning panel is on the page
Unstarted ==
    /\ PipelineUnstarted
    /\ PanelUnmounted
    /\ loading = FALSE

\* fetchMessageUpdates has returned the generator for a successful response
Quiet ==
    /\ Unstarted
    /\ response = "ok"
    /\ outcome = "open"

Init ==
    /\ smooth \in BOOLEAN
    /\ \E recs \in SeqsUpTo(RecSet, MaxRecs) \ {<<>>} :
           lines = [k \in 1..Len(recs) |-> Encode(recs[k])]
    /\ tail = <<>>
    /\ net = JoinLines(lines)
    /\ Quiet

\* the chunk lengths read() may return: any in the decoder specification, whole
\* lines in the pipeline specification
AnyCut(text) == 1..Len(text)

LineCuts(text) == {k \in 1..Len(text) : text[k] = NL}

Next ==
    \/ Pull
    \/ ExternalAbort
    \/ DecStart
    \/ DecLoop
    \/ \E k \in LineCuts(net) : ReadChunk(k)
    \/ ReadLastChunk
    \/ ReadEmpty
    \/ ReadDone
    \/ ReadError
    \/ DecYield
    \/ CoStep
    \/ CoEnd
    \/ CoFail
    \/ ConsumeUpdate
    \/ ConsumeDone
    \/ ConsumeFail
    \/ SmoothStart
    \/ EmitNonStream
    \/ \E charsToProcess \in 1..MaxBurst : FrameEmit(charsToProcess)
    \/ FrameSkip
    \/ FramePost
    \/ SleepDone
    \/ IdleEnter
    \/ IdleTimeout
    \/ FrameNothing
    \/ LoopExit
    \/ Join

Spec == Init /\ [][Next]_vars

(***************************************************************************)
(* Specification of the speed controller on its own.  The character queue  *)
(* is represented by its length only, which is the input of each frame, so *)
(* that queues of thousands of characters are covered; the other stages do *)
(* not take part.  The controller is followed for MaxFrames frames.        *)
(***************************************************************************)
QueueLengths == {1, 31, 200, 1244, 5000}

InitSpeed ==
    /\ smooth = TRUE
    /\ lines = <<Encode(Stream(<<"a">>))>>
    /\ tail = <<>>
    /\ net = JoinLines(lines)
    /\ Quiet

NextSpeed ==
    \E queueLength \in QueueLengths, left \in {0} \cup QueueLengths :
        SpeedFrame(queueLength, left)

SpecSpeed == InitSpeed /\ [][NextSpeed]_vars

(***************************************************************************)
(* The reasoning panel on its own: it is constructed with either value of  *)
(* loading, mounted, and then sees prop changes and clicks in any order.   *)
(***************************************************************************)
InitPanel ==
    /\ smooth = TRUE
    /\ lines = <<Encode(Stream(<<"a">>))>>
    /\ tail = <<>>
    /\ net = JoinLines(lines)
    /\ response = "ok" /\ outcome = "open"
    /\ PipelineUnstarted
    /\ PanelUnmounted
    /\ loading \in BOOLEAN

NextPanel ==
    \/ Mount
    \/ \E isLoading \in BOOLEAN : SetLoading(isLoading)
    \/ Toggle

SpecPanel == InitPanel /\ [][NextPanel]_vars

(***************************************************************************)
(* Specification of fetchMessageUpdates from the moment the request is     *)
(* sent: the response may be a success, a failure status or a success      *)
(* without a body, and the caller may abort while the fetch is pending.    *)
(***************************************************************************)
Responses == {"ok", "notOk", "noBody"}

InitFetch ==
    /\ smooth \in BOOLEAN
    /\ \E recs \in SeqsUpTo(RecSet, MaxRecs) \ {<<>>} :
           lines = [k \in 1..Len(recs) |-> Encode(recs[k])]
    /\ tail = <<>>
    /\ net = JoinLines(lines)
    /\ Unstarted
    /\ response = "pending"
    /\ outcome = "fetching"

NextFetch ==
    \/ \E r \in Responses : FetchResponds(r)
    \/ FetchAborted
    \/ Next

SpecFetch == InitFetch /\ [][NextFetch]_vars

(***************************************************************************)
(* Specification of the decoder alone (pass-through mode, no abort, no     *)
(* failure): streams of at most MaxLines lines, well-formed or not, with   *)
(* or without an unterminated tail, cut into chunks in every way.          *)
(***************************************************************************)
LineSet ==
    { Encode(Stream(<<"a">>)), Encode(Stream(<<NL>>)), Encode(NonStream("1")),
      <<"{", "S", "a">> }

Tails == { <<>>, <<"{", "S", "b">>, Encode(NonStream("2")) }

InitDecoder ==
    /\ smooth = FALSE
    /\ lines \in SeqsUpTo(LineSet, MaxLines) \ {<<>>}
    /\ tail \in Tails
    /\ net = JoinLines(lines) \o tail
    /\ Quiet

NextDecoder ==
    \/ Pull
    \/ DecStart
    \/ DecLoop
    \/ \E k \in AnyCut(net) : ReadChunk(k)
    \/ ReadLastChunk
    \/ ReadEmpty
    \/ ReadDone
    \/ DecYield

SpecDecoder == InitDecoder /\ [][NextDecoder]_vars

(***************************************************************************)
(* Specification of the coalescer: smooth mode, streams of at most         *)
(* MaxFragments records over word-continuing tokens, a separator token and *)
(* a non-stream update, the whole body arriving as one chunk; the records  *)
(* go through the decoder and the coalescer into consumeIterator.  What    *)
(* the coalescer has yielded so far is taken followed by cOut.             *)
(***************************************************************************)
CoRecSet == {Stream(<<"a">>), Stream(<<" ">>), NonStream("1")}

InitCoalescer ==
    /\ smooth = TRUE
    /\ \E recs \in SeqsUpTo(CoRecSet, MaxFragments) \ {<<>>} :
           lines = [k \in 1..Len(recs) |-> Encode(recs[k])]
    /\ tail = <<>>
    /\ net = JoinLines(lines)
    /\ Quiet

NextCoalescer ==
    \/ Pull
    \/ SmoothStart
    \/ DecStart
    \/ ReadLastChunk
    \/ DecLoop
    \/ CoStep
    \/ CoEnd
    \/ ConsumeUpdate
    \/ ConsumeDone

SpecCoalescer == InitCoalescer /\ [][NextCoalescer]_vars

(***************************************************************************)
(* The pipeline under the scheduling the runtime guarantees: the caller    *)
(* keeps pulling, every runnable continuation is eventually run, timers    *)
(* fire, and since accumulatedTime grows with every frame while            *)
(* currentSpeed stays positive, a frame with charsToProcess > 0 eventually *)
(* comes.  Nothing is assumed of the abort signal, of read failures or of  *)
(* empty chunks.                                                           *)
(***************************************************************************)
PipelineStep ==
    \/ DecStart
    \/ DecLoop
    \/ \E k \in LineCuts(net) : ReadChunk(k)
    \/ ReadLastChunk
    \/ ReadDone
    \/ DecYield
    \/ CoStep
    \/ CoEnd
    \/ CoFail
    \/ ConsumeUpdate
    \/ ConsumeDone
    \/ ConsumeFail

SchedulerStep ==
    \/ SmoothStart
    \/ EmitNonStream
    \/ \E charsToProcess \in 1..MaxBurst : FrameEmit(charsToProcess)
    \/ FrameSkip
    \/ FramePost
    \/ SleepDone
    \/ IdleEnter
    \/ IdleTimeout
    \/ FrameNothing
    \/ LoopExit
    \/ Join

Fairness ==
    /\ WF_vars(Pull)
    /\ WF_vars(PipelineStep)
    /\ WF_vars(SchedulerStep)
    /\ SF_vars(\E charsToProcess \in 1..MaxBurst : FrameEmit(charsToProcess))

FairSpec == Init /\ [][Next]_vars /\ Fairness

(***************************************************************************)
(* Properties.                                                             *)
(***************************************************************************)
InputRecords == ValidRecords(lines)

\* index in us of its n-th non-stream record, 0 if it has fewer
NthNonStream(us, n) ==
    LET at == {p \in 1..Len(us) :
                  ~IsStream(us[p]) /\ Len(NonStreamsOf(SubSeq(us, 1, p))) = n}
    IN  IF at = {} THEN 0 ELSE CHOOSE p \in at : TRUE

\* the text that precedes position p
TextBefore(us, p) == TextOf(SubSeq(us, 1, p - 1))

\* the position, among the records the decoder produced, of the non-stream
\* record emitted at position p of out
InputPosition(p) == NthNonStream(decoded, Len(NonStreamsOf(SubSeq(out, 1, p))))

\* C1: a well-formed stream whose every line ends in a newline is decoded to
\* exactly its records, in order, however it is cut into chunks; while it is
\* being decoded, what has been decoded is a prefix of its records.
FramingCorrect ==
    (AllValid(lines) /\ tail = <<>>) =>
        /\ IsPrefix(out \o dOut, InputRecords)
        /\ outcome = "completed" => out = InputRecords

\* The framing case is reachable: a stream of several lines, one holding an escape sequence, was
\* decoded to the end with at least one chunk ending inside a line.
FramingWitness ==
    /\ outcome = "completed"
    /\ AllValid(lines) /\ tail = <<>>
    /\ Len(lines) >= 2
    /\ \E k \in 1..Len(lines) : lines[k] = Encode(Stream(<<NL>>))
    /\ spanned
    /\ out = InputRecords

\* C2 (as claimed): in a stream holding a line that fails to parse, that line is
\* the only thing dropped: at the end of the stream every well-formed
\* newline-terminated line has been yielded, and the decoder has not failed.
MalformedLineOnlyDropped ==
    (~AllValid(lines) /\ tail = <<>>) =>
        /\ outcome # "failed"
        /\ outcome = "completed" => out = InputRecords

\* C3 (as claimed): in smooth mode every non-stream record is emitted at its
\* input position relative to the text: the text emitted before it is exactly
\* the text that precedes it in the input.
NonStreamAtInputPosition ==
    smooth =>
        \A p \in 1..Len(out) :
            ~IsStream(out[p]) =>
                /\ InputPosition(p) > 0
                /\ TextBefore(out, p) = TextBefore(decoded, InputPosition(p))

\* C3 (amended): in smooth mode the non-stream records are emitted in input
\* order and no text character that follows a non-stream record in the input is
\* emitted before that record: the text emitted before it is a prefix of the
\* text that precedes it in the input.
NonStreamNotOvertakenByLaterText ==
    smooth =>
        \A p \in 1..Len(out) :
            ~IsStream(out[p]) =>
                /\ InputPosition(p) > 0
                /\ out[p] = decoded[InputPosition(p)]
                /\ IsPrefix(TextBefore(out, p), TextBefore(decoded, InputPosition(p)))

\* C3 witness: the run has completed with a non-stream record emitted ahead of
\* text that precedes it in the input, and all the text emitted in the end.
NonStreamOvertookTextWitness ==
    /\ smooth
    /\ outcome = "completed"
    /\ TextOf(out) = TextOf(decoded)
    /\ \E p \in 1..Len(out) :
           /\ ~IsStream(out[p])
           /\ InputPosition(p) > 0
           /\ TextBefore(out, p) # TextBefore(decoded, InputPosition(p))

\* C4: the non-stream records the decoder produced leave the coalescer and the
\* scheduler in the same order, unmodified and at most once each; the coalescer
\* has passed on every one it received as soon as it has processed it, and when
\* the run completes each has been emitted exactly once.
NonStreamOrderAndIntegrity ==
    smooth =>
        /\ NonStreamsOf(taken \o cOut) = NonStreamsOf(decoded)
        /\ NonStreamsOf(out) \o pendingNonStreamUpdates = NonStreamsOf(taken)
        /\ outcome = "completed" => NonStreamsOf(out) = NonStreamsOf(decoded)

\* C4 witness: a completed smooth run whose input interleaves text with two
\* non-stream records.
NonStreamInterleavedWitness ==
    /\ smooth
    /\ outcome = "completed"
    /\ Len(decoded) = 3
    /\ ~IsStream(decoded[1]) /\ IsStream(decoded[2]) /\ ~IsStream(decoded[3])
    /\ decoded[1] # decoded[3]
    /\ NonStreamsOf(out) = NonStreamsOf(decoded)

\* C5: once the upstream sequence has ended, the scheduler eventually completes
\* having emitted exactly the text it received, in order.
PacingComplete ==
    iteratorDone ~> (outcome = "completed" /\ TextOf(out) = TextOf(taken))

\* C5 witness: a completed run in which the text was emitted in several
\* fragments, none of them a whole token of the input.
PacingCompleteWitness ==
    /\ outcome = "completed"
    /\ iteratorDone
    /\ Len(TextOf(taken)) >= 3
    /\ TextOf(out) = TextOf(taken)
    /\ \E p \in 1..Len(out) : IsStream(out[p]) /\ out[p] \notin {taken[q] : q \in 1..Len(taken)}

\* C6: the text emitted so far followed by the character queue is the text of
\* the stream tokens consumeIterator has received.
PacingContentSafe ==
    smooth => TextOf(out) \o charQueue = TextOf(taken)

\* C6 witness: part of a token has been emitted and the rest of it is queued.
PacingContentWitness ==
    /\ smooth
    /\ TextOf(out) # <<>>
    /\ charQueue # <<>>
    /\ Len(TextOf(taken)) >= 3

\* C7 (as claimed): once the abort signal has fired and the decoder has stopped
\* with a reader acquired, reader.cancel() has been invoked.
ReaderCancelledOnAbort ==
    (extAborted /\ rstate # "none" /\ dpc \in {"done", "failed"}) => cancelCalls >= 1

\* C8 (as claimed): once the abort signal has fired no further record is
\* emitted to the caller.
NoEmissionAfterAbort ==
    extAborted => Len(out) = abortedAt

\* C9: when the abort signal fires while the decoder's listener is registered
\* and the decoder is running, reader.cancel() is invoked exactly once over the
\* whole run, whatever further abort() calls follow.
CancelExactlyOnce ==
    abortedIn \in {"loop", "reading"} => cancelCalls = 1

\* C9 witness: the signal fired during a read, the cancelled read then reported
\* done, and abort() has been called again by the closed handler and the loop.
CancelOnceWitness ==
    /\ abortedIn = "reading"
    /\ dpc = "done"
    /\ abortCalls >= 3
    /\ cancelCalls = 1

\* C10 (as claimed): after a read failure the caller's sequence eventually ends
\* with the failure (here unless the caller aborts in the meantime).
FaultPropagates ==
    (rstate = "errored") ~> (outcome = "failed" \/ extAborted)

NonStreamNotBlockedByPacing ==
    [][ (smooth /\ out' # out /\ pendingNonStreamUpdates # <<>>)
            => /\ out' = Append(out, Head(pendingNonStreamUpdates))
               /\ charQueue' = charQueue ]_vars

\* C12 witness: a non-stream update that arrived while a token was being paced
\* has been emitted between two fragments of that token.
NonStreamMidTokenWitness ==
    /\ smooth
    /\ Len(out) >= 2 /\ Len(taken) >= 2
    /\ IsStream(taken[1]) /\ ~IsStream(taken[2])
    /\ IsStream(out[1]) /\ out[2] = taken[2]
    /\ Len(out[1].token) < Len(taken[1].token)
    /\ charQueue # <<>>

\* what the coalescer has yielded so far
CoEmitted == taken \o cOut

\* fragments i and i + 1 of the coalescer's input are stream tokens, the first
\* ending and the second beginning with a word character
Continues(us, i) ==
    /\ i >= 1 /\ i < Len(us)
    /\ IsStream(us[i]) /\ IsStream(us[i + 1])
    /\ EndsAlphanumeric(us[i].token) /\ BeginsAlphanumeric(us[i + 1].token)

\* the maximal run of word-continuing fragments around fragment i
RunStart(us, i) ==
    CHOOSE a \in 1..i :
        /\ \A k \in a..(i - 1) : Continues(us, k)
        /\ \A b \in 1..(a - 1) : \E k \in b..(i - 1) : ~Continues(us, k)

RunEnd(us, i) ==
    CHOOSE z \in i..Len(us) :
        /\ \A k \in i..(z - 1) : Continues(us, k)
        /\ \A y \in (z + 1)..Len(us) : \E k \in i..(y - 1) : ~Continues(us, k)

\* where a sequence has two adjacent stream fragments: the number of non-stream
\* records and the length of the text before the boundary
Cut(us, p) == <<Len(NonStreamsOf(SubSeq(us, 1, p))), Len(TextOf(SubSeq(us, 1, p)))>>

CutOffsets(us) ==
    {Cut(us, p) : p \in {q \in 1..(Len(us) - 1) : IsStream(us[q]) /\ IsStream(us[q + 1])}}

\* C13 (as claimed): two adjacent word-continuing fragments that belong to a
\* run of at most five are emitted inside one stream fragment, however the run
\* is flushed: the coalescer's output has no fragment boundary between them.
WordsCoalesced ==
    smooth =>
        \A i \in 1..(Len(decoded) - 1) :
            (/\ Continues(decoded, i)
             /\ RunEnd(decoded, i) - RunStart(decoded, i) + 1 <= CombineCap)
                => Cut(decoded, i) \notin CutOffsets(CoEmitted)

\* the text of us between its n-th and its (n + 1)-th non-stream record
SegText(us, n) ==
    TextOf(SubSeq(us, NthNonStream(us, n) + 1, NthNonStream(us, n + 1) - 1))

\* C14: a non-stream update is a barrier in the coalescer.  When it arrives the
\* whole buffer is emitted as one fragment, then the update, and the buffer is
\* left empty; so between two consecutive non-stream updates (and before the
\* first, and after the last once the input has ended) the emitted text is the
\* input text, and no emitted fragment holds text of both sides of an update.
CoalescerBarrier ==
    /\ [](smooth =>
            /\ \A n \in 0..(Len(NonStreamsOf(CoEmitted)) - 1) :
                   SegText(CoEmitted, n) = SegText(decoded, n)
            /\ cpc = "done" => TextOf(CoEmitted) = TextOf(decoded))
    /\ [][ (smooth /\ decoded' # decoded /\ ~IsStream(Last(decoded')))
               => /\ bufferedStreamUpdates' = <<>>
                  /\ Len(cOut') <= 2
                  /\ Last(cOut') = Last(decoded')
                  /\ TextOf(cOut') = JoinTokens(bufferedStreamUpdates) ]_vars

\* C14 witness: the input has ended; a non-stream update arrived with two
\* tokens buffered, they were emitted as one fragment just before it, and more
\* text followed it.
CoalescerBarrierWitness ==
    /\ smooth /\ cpc = "done" /\ cOut = <<>>
    /\ \E p \in 2..(Len(taken) - 1) :
           /\ ~IsStream(taken[p])
           /\ IsStream(taken[p - 1]) /\ Len(taken[p - 1].token) = 2
           /\ IsStream(taken[p + 1])
    /\ Len(decoded) > Len(taken)

\* C15: the coalescer never combines more than five input fragments.  Every
\* token of CoRecSet is one character long, so the length of an emitted token
\* is the number of input fragments it was made of; the buffer, which a
\* non-stream update flushes as one fragment, never holds more than five.
CombineCapRespected ==
    smooth =>
        /\ Len(bufferedStreamUpdates) <= CombineCap
        /\ \A p \in 1..Len(CoEmitted) :
               IsStream(CoEmitted[p]) => Len(CoEmitted[p].token) <= CombineCap

\* C15 witness: six consecutive word-continuing fragments came in and went out
\* as a fragment of five followed by another stream fragment.
CombineCapWitness ==
    /\ smooth
    /\ Len(decoded) >= 6
    /\ \A i \in 1..5 : Continues(decoded, i)
    /\ Len(CoEmitted) >= 2
    /\ IsStream(CoEmitted[1]) /\ Len(CoEmitted[1].token) = CombineCap
    /\ IsStream(CoEmitted[2])

\* C16 (as claimed): a stream of well-formed lines that ends with a dangling
\* partial line, neither terminated by a newline nor parseable, is decoded
\* without failure, and when the reader has signalled completion exactly the
\* records of the complete lines have been yielded.
CarryDiscardedOnEnd ==
    (AllValid(lines) /\ tail # <<>> /\ ~IsJSON(tail)) =>
        /\ outcome # "failed"
        /\ outcome = "completed" => out = InputRecords

\* C17: a response whose status is not a success, or that has no body, makes
\* fetchMessageUpdates throw: no sequence is returned, and then and ever after
\* no reader is acquired, no stage is started and no record is emitted.
TransportFailureDetected ==
    response \in {"notOk", "noBody"} =>
        /\ outcome = "threw"
        /\ Unstarted

\* C17 witness: the fetch has settled with a failure status and
\* fetchMessageUpdates has thrown.
TransportFailureWitness ==
    /\ response = "notOk"
    /\ outcome = "threw"
    /\ rstate = "none"

\* C18: with smooth rendering disabled the caller receives the decoder's
\* output itself, record by record as the decoder yields it, and neither the
\* coalescer nor the scheduler is ever started.  With it enabled the decoder's
\* records reach the caller through the coalescer and the scheduler, which keep
\* the text and the non-stream records.  In either mode a run that completes
\* has delivered the non-stream records and the text of what the decoder
\* produced, which, when the caller did not abort, is the whole stream (chunks
\* end at line boundaries here).
SmoothToggle ==
    /\ ~smooth =>
          /\ out = decoded
          /\ cpc = "run" /\ ppc = "idle" /\ spc = "init"
          /\ taken = <<>> /\ cOut = <<>> /\ bufferedStreamUpdates = <<>>
    /\ smooth =>
          /\ TextOf(CoEmitted)
                 \o (IF cpc = "done" THEN <<>> ELSE JoinTokens(bufferedStreamUpdates))
                 = TextOf(decoded)
          /\ NonStreamsOf(CoEmitted) = NonStreamsOf(decoded)
          /\ TextOf(out) \o charQueue = TextOf(taken)
          /\ NonStreamsOf(out) \o pendingNonStreamUpdates = NonStreamsOf(taken)
    /\ outcome = "completed" =>
          /\ TextOf(out) = TextOf(decoded)
          /\ NonStreamsOf(out) = NonStreamsOf(decoded)
          /\ ~extAborted => decoded = InputRecords

\* C18 witness: a completed smooth run, not aborted, that delivered the text
\* and the non-stream records of the stream in records other than the
\* decoder's.
SmoothToggleWitness ==
    /\ smooth
    /\ outcome = "completed" /\ ~extAborted
    /\ out # decoded
    /\ NonStreamsOf(out) # <<>>
    /\ Len(TextOf(out)) >= 3
    /\ TextOf(out) = TextOf(InputRecords)

\* C19: the reader signalling completion is not an error.  Once the decoder has
\* returned, the caller's sequence never fails, and if the caller keeps
\* pulling it eventually completes with the coalescer's buffer flushed and both
\* queues of the scheduler drained: everything the decoder produced has been
\* delivered.
SourceClosureTerminates ==
    /\ [](dpc = "done" => outcome # "failed")
    /\ (dpc = "done") ~>
           (/\ outcome = "completed"
            /\ cOut = <<>> /\ charQueue = <<>> /\ pendingNonStreamUpdates = <<>>
            /\ TextOf(out) = TextOf(decoded)
            /\ NonStreamsOf(out) = NonStreamsOf(decoded))

\* C19 witness: a smooth run, not aborted, has completed after the source
\* closed with tokens still in the coalescer's buffer, and all the text went out.
SourceClosureFlushWitness ==
    /\ smooth
    /\ ~extAborted
    /\ dpc = "done" /\ cpc = "done"
    /\ bufferedStreamUpdates # <<>>
    /\ outcome = "completed"
    /\ TextOf(out) = TextOf(InputRecords)

\* the part of the body the reader has handed out, and its newlines
Received ==
    LET body == JoinLines(lines) \o tail
    IN  SubSeq(body, 1, Len(body) - Len(net))

NewlinesReceived == Cardinality({k \in 1..Len(Received) : Received[k] = NL})

\* C20 (as claimed): the decoder emits no record whose terminating newline has
\* not been received: the records parsed so far are at most as many as the
\* newlines received, and while no newline has been received nothing is parsed
\* and everything received is the carry.
CarryRule ==
    /\ Len(out) + Len(dOut) <= NewlinesReceived
    /\ (NewlinesReceived = 0 /\ dpc = "loop") => prevChunk = Received

\* C21: the scheduler leaves its main loop, and its sequence completes, only
\* when consumeIterator has finished and both queues are empty; while the
\* producer runs or a queue holds data the sequence is not complete.
CompletionGate ==
    smooth =>
        /\ spc \in {"join", "done"} =>
               /\ iteratorDone
               /\ charQueue = <<>> /\ pendingNonStreamUpdates = <<>>
        /\ outcome = "completed" =>
               /\ ppc = "done" /\ spc = "done"
               /\ charQueue = <<>> /\ pendingNonStreamUpdates = <<>>

\* C21 witness: a smooth run that received text and non-stream updates has
\* completed with the producer finished and both queues drained.
CompletionGateWitness ==
    /\ smooth
    /\ outcome = "completed"
    /\ ppc = "done" /\ iteratorDone
    /\ charQueue = <<>> /\ pendingNonStreamUpdates = <<>>
    /\ Len(taken) = 3
    /\ TextOf(taken) # <<>> /\ NonStreamsOf(taken) # <<>>

\* C22: the main loop waits in waitForDataOrTimeout only with both queues empty
\* and the producer unfinished, and every notification the producer raises
\* while it waits (a record pushed, or the end of the upstream) resolves the
\* wait in that very step, before any timeout.
NoMissedWakeup ==
    /\ [](spc = "idle" =>
            /\ charQueue = <<>> /\ pendingNonStreamUpdates = <<>>
            /\ ~iteratorDone)
    /\ [][ (spc = "idle" /\ (taken' # taken \/ iteratorDone' # iteratorDone))
               => spc' = "woken" ]_vars

\* C22 witness: the wait has just been resolved by the producer's event, with
\* the pushed characters in the queue and nothing emitted yet.
WokenByDataWitness ==
    /\ spc = "woken"
    /\ charQueue # <<>>
    /\ ~iteratorDone
    /\ callerWaiting

\* C23: every stream token the scheduler emits is a non-empty head of
\* charQueue, no longer than the queue, and exactly its characters leave the
\* queue; no empty token is ever emitted.
FragmentSize ==
    /\ [](smooth => \A p \in 1..Len(out) : IsStream(out[p]) => out[p].token # <<>>)
    /\ [][ (smooth /\ out' # out /\ IsStream(Last(out')))
               => LET token == Last(out').token
                  IN  /\ Len(token) >= 1
                      /\ Len(token) <= Len(charQueue)
                      /\ token = SubSeq(charQueue, 1, Len(token))
                      /\ charQueue' = SubSeq(charQueue, Len(token) + 1, Len(charQueue)) ]_vars

\* C23 witness: a token of two characters has just been emitted from a longer
\* queue, after a token of one character.
FragmentSizeWitness ==
    /\ smooth
    /\ spc = "post"
    /\ Len(out) >= 2
    /\ IsStream(out[1]) /\ Len(out[1].token) = 1
    /\ IsStream(Last(out)) /\ Len(Last(out).token) = 2
    /\ charQueue # <<>>

\* C24 (as claimed): after every frame the speed is at least the baseline of 30
\* characters per second and lies between the speed before the frame and the
\* target max(30, queue length) of the frame: it moves toward the target
\* without passing it, and is never zero or negative.
SpeedWithinBounds ==
    /\ currentSpeed >= START_ANIMATION_SPEED
    /\ currentSpeed <= Max(previousSpeed, targetSpeed)
    /\ currentSpeed >= (IF previousSpeed <= targetSpeed THEN previousSpeed ELSE targetSpeed)

\* C25: after the coalescer has processed a stream record, and until the input
\* ends, its buffer holds between one and five fragments, the last of them the
\* record just processed, every two neighbours in it word-continuing; and the
\* buffer is exactly the input text not emitted yet, so that the newest
\* fragment has not been emitted.
CoalescerWithholds ==
    (smooth /\ cpc = "run" /\ decoded # <<>> /\ IsStream(Last(decoded))) =>
        /\ Len(bufferedStreamUpdates) >= 1
        /\ Len(bufferedStreamUpdates) <= CombineCap
        /\ Last(bufferedStreamUpdates) = Last(decoded)
        /\ \A i \in 1..(Len(bufferedStreamUpdates) - 1) : Continues(bufferedStreamUpdates, i)
        /\ TextOf(CoEmitted) \o JoinTokens(bufferedStreamUpdates) = TextOf(decoded)

\* C25 witness: a fragment was emitted, then five word-continuing fragments
\* came in and are all withheld, the newest among them.
CoalescerWithholdsWitness ==
    /\ smooth /\ cpc = "run"
    /\ Len(decoded) > CombineCap
    /\ IsStream(Last(decoded))
    /\ CoEmitted # <<>>
    /\ Len(bufferedStreamUpdates) = CombineCap
    /\ Last(bufferedStreamUpdates) = Last(decoded)

\* C26: a step in which loading changes from false to true, and the first
\* render when loading is true, leaves the panel open; a step in which loading
\* changes from true to false leaves it closed; in a step of the mounted panel
\* that does not change loading, a click inverts the state and anything else
\* leaves it as it was, so the state is what the last click set.
PanelFollowsLoading ==
    [][ /\ (~loading /\ loading') => isOpen'
        /\ (~initialized /\ initialized' /\ loading') => isOpen'
        /\ (loading /\ ~loading') => ~isOpen'
        /\ (initialized /\ loading' = loading) =>
               IF clicks' # clicks THEN isOpen' = ~isOpen ELSE isOpen' = isOpen ]_vars

\* C26 witness: loading has started and finished more than once and the user
\* has clicked more than once; loading is over, the panel was collapsed with
\* it and the user has opened it again.
PanelFollowsLoadingWitness ==
    /\ initialized /\ ~loading /\ ~wasLoading
    /\ loadingChanges >= 4 /\ clicks >= 3
    /\ isOpen

====
